---- MODULE Spec2Model ----
(***************************************************************************)
(* Model of the pIRS bash token tracker (src/index.ts).                    *)
(*                                                                         *)
(* Strings are TLA+ strings; a character is a string of length one, read   *)
(* with CharAt.  Regular expressions of the source are modelled by what    *)
(* the JavaScript matcher does with them (greedy runs, leftmost match).    *)
(***************************************************************************)
EXTENDS Integers, Sequences, FiniteSets

\* ------------------------------------------------------------------------
\* Characters and character classes
\* ------------------------------------------------------------------------

CharAt(s, i) == SubSeq(s, i, i)

\* U+000B, the vertical tab: TLA+ has no escape for it, the string holds the
\* character itself
VerticalTab == ""

\* \s of a JavaScript regular expression, and what String.prototype.trim
\* removes, among the characters U+0000 to U+007F
WhiteSpace == {" ", "\t", "\n", VerticalTab, "\f", "\r"}

Digits == {"0", "1", "2", "3", "4", "5", "6", "7", "8", "9"}

Letters ==
   {"a", "b", "c", "d", "e", "f", "g", "h", "i", "j", "k", "l", "m",
    "n", "o", "p", "q", "r", "s", "t", "u", "v", "w", "x", "y", "z",
    "A", "B", "C", "D", "E", "F", "G", "H", "I", "J", "K", "L", "M",
    "N", "O", "P", "Q", "R", "S", "T", "U", "V", "W", "X", "Y", "Z"}

\* \w
WordChars == Letters \cup Digits \cup {"_"}

\* [;&]
CdDelims == {";", "&"}

\* [\w@/.:-]
RunnerTokenChars == WordChars \cup {"@", "/", ".", ":", "-"}

\* [\d^~>=<.*]
VersionChars == Digits \cup {"^", "~", ">", "=", "<", ".", "*"}

\* The first index >= i of s whose character is not in class C
\* (Len(s) + 1 when the run reaches the end): a greedy C* from i.
RECURSIVE RunEnd(_, _, _)
RunEnd(s, i, C) ==
   IF i <= Len(s) /\ CharAt(s, i) \in C THEN RunEnd(s, i + 1, C) ELSE i

\* The first index >= i of s whose character is in class C: a greedy [^C]*.
RECURSIVE RunEndNot(_, _, _)
RunEndNot(s, i, C) ==
   IF i <= Len(s) /\ CharAt(s, i) \notin C THEN RunEndNot(s, i + 1, C) ELSE i

\* The last index <= i of s whose character is not in class C (0 if none).
RECURSIVE RunStartBack(_, _, _)
RunStartBack(s, i, C) ==
   IF i >= 1 /\ CharAt(s, i) \in C THEN RunStartBack(s, i - 1, C) ELSE i

StartsWith(s, p) == Len(p) <= Len(s) /\ SubSeq(s, 1, Len(p)) = p

StartsWithAt(s, i, p) ==
   i + Len(p) - 1 <= Len(s) /\ SubSeq(s, i, i + Len(p) - 1) = p

\* String.prototype.includes
Includes(s, p) == \E i \in 1..(Len(s) - Len(p) + 1) : StartsWithAt(s, i, p)

DropFirst(s, n) == SubSeq(s, n + 1, Len(s))

\* String.prototype.trim
Trim(s) ==
   LET a == RunEnd(s, 1, WhiteSpace)
       b == RunStartBack(s, Len(s), WhiteSpace)
   IN  IF a > Len(s) THEN "" ELSE SubSeq(s, a, b)

\* ------------------------------------------------------------------------
\* extractBaseCommand
\* ------------------------------------------------------------------------

\* One iteration of the group (cd\s+[^;&]+[;&]\s*) matched at the start of
\* cmd: the number of characters it consumes, 0 when it does not match.
\* [^;&]+ runs to the first ; or &, which is the only place [;&] can match;
\* \s+ gives back all but one character to leave [^;&]+ at least one.
CdClauseLen(cmd) ==
   IF ~ StartsWith(cmd, "cd") THEN 0
   ELSE LET d == RunEndNot(cmd, 3, CdDelims)
        IN  IF /\ d <= Len(cmd)
               /\ CharAt(cmd, 3) \in WhiteSpace
               /\ d >= 5
            THEN RunEnd(cmd, d + 1, WhiteSpace) - 1
            ELSE 0

\* cmd.replace(/^(cd\s+[^;&]+[;&]\s*)+/, "")
RECURSIVE StripCdPrefix(_)
StripCdPrefix(cmd) ==
   LET n == CdClauseLen(cmd)
   IN  IF n = 0 THEN cmd ELSE StripCdPrefix(DropFirst(cmd, n))

\* One iteration of the group (\w+=\S+\s+) matched at the start of cmd.
EnvClauseLen(cmd) ==
   LET e == RunEnd(cmd, 1, WordChars)
       v == RunEndNot(cmd, e + 1, WhiteSpace)
   IN  IF /\ e >= 2
          /\ e <= Len(cmd)
          /\ CharAt(cmd, e) = "="
          /\ v >= e + 2
          /\ v <= Len(cmd)
       THEN RunEnd(cmd, v, WhiteSpace) - 1
       ELSE 0

\* cmd.replace(/^(\w+=\S+\s+)+/, "")
RECURSIVE StripEnvPrefix(_)
StripEnvPrefix(cmd) ==
   LET n == EnvClauseLen(cmd)
   IN  IF n = 0 THEN cmd ELSE StripEnvPrefix(DropFirst(cmd, n))

extractBaseCommand(command) ==
   Trim(StripEnvPrefix(StripCdPrefix(Trim(command))))

\* ------------------------------------------------------------------------
\* extractRunnerCommand
\* ------------------------------------------------------------------------

NoMatch == "<null>"

\* `${runner}\s+(?:--\s+)?([\w@/.:-]+)` tried at index p of base:
\* the capture group, or NoMatch.
RunnerMatchAt(base, runner, p) ==
   IF ~ StartsWithAt(base, p, runner) THEN NoMatch
   ELSE LET q == p + Len(runner)
            r == RunEnd(base, q, WhiteSpace)
            t == RunEnd(base, r + 2, WhiteSpace)
            viaDashes ==
               /\ StartsWithAt(base, r, "--")
               /\ t > r + 2
               /\ t <= Len(base)
               /\ CharAt(base, t) \in RunnerTokenChars
            from == IF viaDashes THEN t ELSE r
        IN  IF r = q THEN NoMatch
            ELSE IF from <= Len(base) /\ CharAt(base, from) \in RunnerTokenChars
                 THEN SubSeq(base, from, RunEnd(base, from, RunnerTokenChars) - 1)
                 ELSE NoMatch

\* match[1].replace(/@[\d^~>=<.*]+$/, "")
StripVersion(pkg) ==
   LET b == RunStartBack(pkg, Len(pkg), VersionChars)
   IN  IF b >= 1 /\ b < Len(pkg) /\ CharAt(pkg, b) = "@"
       THEN SubSeq(pkg, 1, b - 1)
       ELSE pkg

extractRunnerCommand(base, runner) ==
   LET hits == {p \in 1..Len(base) : RunnerMatchAt(base, runner, p) # NoMatch}
   IN  IF hits = {} THEN NoMatch
       ELSE LET p == CHOOSE x \in hits : \A y \in hits : x <= y
            IN  StripVersion(RunnerMatchAt(base, runner, p))

\* ------------------------------------------------------------------------
\* classifyCommand
\* ------------------------------------------------------------------------

\* Each entry: <<groupName, matchPattern, ...>>, in the order of the source.
COMMAND_GROUPS ==
   <<
      <<"pytest", "pytest", "python3 -m pytest", "python -m pytest", "uv run pytest", "uv run python -m pytest">>,
      <<"vitest", "vitest">>,
      <<"jest", "jest">>,
      <<"tsc", "tsc">>,
      <<"eslint", "eslint">>,
      <<"npm install", "npm install", "npm ci", "pnpm install", "pnpm i", "bun install", "bun add">>,
      <<"npm run", "npm run", "pnpm run", "pnpm exec", "bun run">>,
      <<"npm", "npm ", "pnpm ", "bun ">>,
      <<"pip", "pip install", "pip3 install", "uv add", "uv pip install", "uv pip compile", "uv pip sync">>,
      <<"uv", "uv run", "uv sync", "uv lock", "uv venv", "uv init", "uv remove", "uv tree", "uv ">>,
      <<"git", "git ">>,
      <<"grep/rg", "grep ", "rg ">>,
      <<"find", "find ">>,
      <<"cat/head/tail", "cat ", "head ", "tail ">>,
      <<"ls", "ls ">>,
      <<"file ops", "cp ", "mv ", "mkdir ", "rm ", "rmdir ", "chmod ", "chown ", "ln ", "touch ">>,
      <<"docker", "docker ">>,
      <<"curl/wget", "curl ", "wget ">>,
      <<"cargo test", "cargo test">>,
      <<"cargo fmt", "cargo fmt">>,
      <<"cargo clippy", "cargo clippy">>,
      <<"cargo", "cargo ">>,
      <<"go", "go build", "go test", "go run">>,
      <<"make", "make ">>
   >>

RUNNERS == <<"npx", "bunx", "uvx">>

Other == "other"

\* The loop over the runners, from runner i on: the dynamic group of the
\* first runner base starts with, NoMatch when base starts with none.
RECURSIVE RunnerLoop(_, _)
RunnerLoop(base, i) ==
   IF i > Len(RUNNERS) THEN NoMatch
   ELSE IF StartsWith(base, RUNNERS[i] \o " ")
        THEN LET sub == extractRunnerCommand(base, RUNNERS[i])
             IN  IF sub # NoMatch /\ sub # ""
                 THEN RUNNERS[i] \o " " \o sub
                 ELSE RUNNERS[i]
        ELSE RunnerLoop(base, i + 1)

\* PatternLoop with startsWith in place of includes: a pattern counts only
\* at the start of base.
RECURSIVE PatternLoopPrefix(_, _, _)
PatternLoopPrefix(base, g, p) ==
   IF p + 1 > Len(COMMAND_GROUPS[g]) THEN FALSE
   ELSE IF StartsWith(base, COMMAND_GROUPS[g][p + 1]) THEN TRUE
        ELSE PatternLoopPrefix(base, g, p + 1)

\* The inner loop over the patterns of entry g, from pattern p on (pattern
\* p of an entry is its element p + 1; element 1 is the name): whether
\* base includes one of them.
RECURSIVE PatternLoop(_, _, _)
PatternLoop(base, g, p) ==
   IF p + 1 > Len(COMMAND_GROUPS[g]) THEN FALSE
   ELSE IF Includes(base, COMMAND_GROUPS[g][p + 1]) THEN TRUE
        ELSE PatternLoop(base, g, p + 1)

\* The outer loop over COMMAND_GROUPS, from entry g on
RECURSIVE StaticLoop(_, _)
StaticLoop(base, g) ==
   IF g > Len(COMMAND_GROUPS) THEN Other
   ELSE IF PatternLoop(base, g, 1) THEN COMMAND_GROUPS[g][1]
        ELSE StaticLoop(base, g + 1)

classifyCommand(command) ==
   LET base == extractBaseCommand(command)
       dyn == RunnerLoop(base, 1)
   IN  IF dyn # NoMatch THEN dyn ELSE StaticLoop(base, 1)

\* ------------------------------------------------------------------------
\* estimateTokens
\* ------------------------------------------------------------------------

CHARS_PER_TOKEN == 4

\* estimateTokens with Math.floor in place of Math.ceil
estimateTokensFloor(chars) == chars \div CHARS_PER_TOKEN

\* Math.ceil(chars / CHARS_PER_TOKEN), chars a non-negative integer
estimateTokens(chars) ==
   IF chars % CHARS_PER_TOKEN = 0
   THEN chars \div CHARS_PER_TOKEN
   ELSE chars \div CHARS_PER_TOKEN + 1

\* ------------------------------------------------------------------------
\* State
\* ------------------------------------------------------------------------

VARIABLES
   records,       \* let records: BashRecord[]
   pendingCalls,  \* Map<toolCallId, command>, a function on the pending ids
   entries,       \* the session's entries (pi.appendEntry / getEntries)
   hasUI,         \* ctx.hasUI of the running host
   widget,        \* what ctx.ui.setWidget("bash-tracker", ...) last set
   notified,      \* what ctx.ui.notify last showed (for /pirs-export,
                  \* together with the data it wrote to the file)
   exports,       \* the /pirs-export handlers that wait at an await
   parts,         \* classification harness: the pieces of the command line
   base,          \* classification harness: extractBaseCommand's result
   group,         \* classification harness: classifyCommand's result
   history        \* pairing harness: the bash call/result events so far

vars ==
   <<records, pendingCalls, entries, hasUI, widget, notified, exports,
     parts, base, group, history>>

progVars ==
   <<records, pendingCalls, entries, hasUI, widget, notified, exports>>
harnessVars == <<parts, base, group>>

\* undefined / null / a missing property
Absent == "<absent>"

\* ------------------------------------------------------------------------
\* Bounds and sample inputs
\* ------------------------------------------------------------------------

MaxEntries == 2      \* session entries appended in a run of Spec
MaxParts == 3        \* pieces of a command line in SpecClassify
MaxHistory == 4      \* events in a run of SpecPairing
MaxShort == 3        \* records of a short sequence in SpecReport
MaxLong == 11        \* records of a long sequence in SpecReport
MaxExports == 1      \* /pirs-export handlers waiting at once in a run of Spec

TextPart(text) == [type |-> "text", text |-> text]
ImagePart == [type |-> "image"]

\* ------------------------------------------------------------------------
\* Handlers of src/index.ts
\* ------------------------------------------------------------------------

TRACKER == "bash-token-tracker"

\* TrackerEntry under the widget's key in place of the entries' customType
TrackerEntryWidgetKey(recs) ==
   [type |-> "custom", customType |-> "bash-tracker", data |-> [records |-> recs]]

TrackerEntry(recs) ==
   [type |-> "custom", customType |-> TRACKER, data |-> [records |-> recs]]

SumTokens(recs) ==
   LET RECURSIVE go(_, _)
       go(i, acc) == IF i > Len(recs) THEN acc
                     ELSE go(i + 1, acc + recs[i].estimatedTokens)
   IN  go(1, 0)

SumChars(recs) ==
   LET RECURSIVE go(_, _)
       go(i, acc) == IF i > Len(recs) THEN acc
                     ELSE go(i + 1, acc + recs[i].outputChars)
   IN  go(1, 0)

\* new Map<string, string>()
NoPending == [id \in {} |-> Absent]

\* setWidget("bash-tracker", undefined), and the widget never set
NoWidget == [kind |-> "none"]

\* updateWidget(ctx): the widget after the call, given the records it sees
WidgetFor(ui, old, recs) ==
   IF ~ ui THEN old
   ELSE IF Len(recs) = 0 THEN NoWidget
        ELSE [kind |-> "line",
              calls |-> Len(recs),
              tokens |-> SumTokens(recs),
              chars |-> SumChars(recs)]

\* RestoreRecords with a break after the first tracker entry: the oldest
\* snapshot is restored, not the last.
RECURSIVE RestoreFirst(_, _, _)
RestoreFirst(ents, i, acc) ==
   IF i > Len(ents) THEN acc
   ELSE LET entry == ents[i]
        IN  IF entry.type = "custom" /\ entry.customType = TRACKER
            THEN (IF "records" \in DOMAIN entry.data
                  THEN entry.data.records ELSE <<>>)
            ELSE RestoreFirst(ents, i + 1, acc)

\* The body of the session_start loop: the records after reading ents.
RECURSIVE RestoreRecords(_, _, _)
RestoreRecords(ents, i, acc) ==
   IF i > Len(ents) THEN acc
   ELSE LET entry == ents[i]
        IN  IF entry.type = "custom" /\ entry.customType = TRACKER
            THEN RestoreRecords(ents, i + 1,
                    IF "records" \in DOMAIN entry.data
                    THEN entry.data.records ELSE <<>>)
            ELSE RestoreRecords(ents, i + 1, acc)

\* A waiting /pirs-export handler holds in data.records the array that
\* records named when it was called.  live: records still names that array,
\* so that what tool_result pushes shows in it; else it is the array held.
\* An assignment to records (records = []) parts the two.
Parted(waiting, recs) ==
   [i \in DOMAIN waiting |->
      IF waiting[i].live
      THEN [waiting[i] EXCEPT !.live = FALSE, !.held = recs]
      ELSE waiting[i]]

\* The factory: the extension is loaded into a new process on the session.
\* let records = [], new Map(); the new process has shown nothing yet and
\* no handler of the old one is left.
Factory ==
   /\ records' = <<>>
   /\ pendingCalls' = NoPending
   /\ widget' = NoWidget
   /\ notified' = [kind |-> "none"]
   /\ exports' = <<>>
   /\ UNCHANGED <<entries, hasUI>>

SessionStart ==
   /\ records' = RestoreRecords(entries, 1, <<>>)
   /\ widget' = WidgetFor(hasUI, widget, records')
   /\ exports' = Parted(exports, records)
   /\ UNCHANGED <<pendingCalls, entries, hasUI, notified>>

\* isToolCallEventType("bash", event) / isBashToolResult(event)
IsBash(event) == event.toolName = "bash"

PendingAfterCall(pending, event) ==
   [id \in DOMAIN pending \cup {event.toolCallId} |->
      IF id = event.toolCallId THEN event.command ELSE pending[id]]

ToolCall(event) ==
   /\ pendingCalls' = IF IsBash(event)
                      THEN PendingAfterCall(pendingCalls, event)
                      ELSE pendingCalls
   /\ UNCHANGED <<records, entries, hasUI, widget, notified, exports>>

\* pendingCalls.get(id) ?? event.input.command ?? "<unknown>"
ResultCommand(pending, event) ==
   IF event.toolCallId \in DOMAIN pending /\ pending[event.toolCallId] # Absent
   THEN pending[event.toolCallId]
   ELSE IF event.command # Absent THEN event.command ELSE "<unknown>"

\* PendingAfterResult without the delete
PendingKept(pending, event) == pending

\* pendingCalls.delete(id)
PendingAfterResult(pending, event) ==
   [id \in DOMAIN pending \ {event.toolCallId} |-> pending[id]]

\* The loop over event.content
OutputChars(content) ==
   LET RECURSIVE go(_, _)
       go(i, acc) ==
          IF i > Len(content) THEN acc
          ELSE go(i + 1, IF content[i].type = "text"
                         THEN acc + Len(content[i].text) ELSE acc)
   IN  go(1, 0)

\* !!event.details?.truncation?.truncated, the property read as a sequence:
\* empty when details or truncation is missing, else its one value
Truthy(truncation) == truncation # <<>> /\ truncation[1]

\* const record: BashRecord = {...}.  Its timestamp (Date.now()) is left out:
\* no handler decides anything by it, and /pirs all only prints it.
NewRecord(pending, event) ==
   LET outputChars == OutputChars(event.content)
   IN  [command |-> ResultCommand(pending, event),
        outputChars |-> outputChars,
        estimatedTokens |-> estimateTokens(outputChars),
        truncated |-> Truthy(event.truncation),
        isError |-> event.isError]

ToolResult(event) ==
   IF ~ IsBash(event) THEN UNCHANGED progVars
   ELSE /\ Len(entries) < MaxEntries
        /\ records' = Append(records, NewRecord(pendingCalls, event))
        /\ pendingCalls' = PendingAfterResult(pendingCalls, event)
        /\ entries' = Append(entries, TrackerEntry(records'))
        /\ widget' = WidgetFor(hasUI, widget, records')
        /\ UNCHANGED <<hasUI, notified, exports>>

PirsReset ==
   /\ Len(entries) < MaxEntries
   /\ records' = <<>>
   /\ entries' = Append(entries, TrackerEntry(<<>>))
   /\ widget' = WidgetFor(hasUI, widget, records')
   /\ notified' = [kind |-> "cleared", count |-> Len(records)]
   /\ exports' = Parted(exports, records)
   /\ UNCHANGED <<pendingCalls, hasUI>>

\* /pirs-export up to its first await: with no records it notifies and
\* returns; else it builds data, the summary from the records of now and
\* data.records the array itself, and waits for import("node:fs").
PirsExport ==
   IF Len(records) = 0
   THEN /\ notified' = [kind |-> "nothing to export"]
        /\ UNCHANGED <<records, pendingCalls, entries, hasUI, widget, exports>>
   ELSE /\ Len(exports) < MaxExports
        /\ exports' = Append(exports,
              [awaits |-> "node:fs",
               summary |-> [totalCommands |-> Len(records),
                            totalTokens |-> SumTokens(records),
                            totalChars |-> SumChars(records)],
               live |-> TRUE,
               held |-> <<>>])
        /\ UNCHANGED <<records, pendingCalls, entries, hasUI, widget, notified>>

\* import("node:fs") has resolved: the handler goes on to
\* await import("node:path")
ExportImportedFs(i) ==
   /\ exports[i].awaits = "node:fs"
   /\ exports' = [exports EXCEPT ![i].awaits = "node:path"]
   /\ UNCHANGED <<records, pendingCalls, entries, hasUI, widget, notified>>

Without(s, i) == SubSeq(s, 1, i - 1) \o SubSeq(s, i + 1, Len(s))

\* import("node:path") has resolved: the handler writes
\* JSON.stringify(data) and notifies with records.length, both read now
ExportWrite(i) ==
   /\ exports[i].awaits = "node:path"
   /\ notified' =
         [kind |-> "exported",
          count |-> Len(records),
          file |-> [summary |-> exports[i].summary,
                    records |-> IF exports[i].live THEN records
                                ELSE exports[i].held]]
   /\ exports' = Without(exports, i)
   /\ UNCHANGED <<records, pendingCalls, entries, hasUI, widget>>

\* ------------------------------------------------------------------------
\* /pirs
\* ------------------------------------------------------------------------

\* cmd.length > max ? cmd.slice(0, keep) + "..." : cmd
Shorten(cmd, max, keep) ==
   IF Len(cmd) > max THEN SubSeq(cmd, 1, keep) \o "..." ELSE cmd

\* args?.trim() || "summary"
Mode(args) ==
   IF args = Absent THEN "summary"
   ELSE IF Trim(args) = "" THEN "summary" ELSE Trim(args)

\* InsertDesc of an unstable sort: the element goes before the elements of
\* equal key already placed.
InsertDescUnstable(acc, i, keys) ==
   LET later == {k \in 1..Len(acc) : keys[acc[k]] <= keys[i]}
       pos == IF later = {} THEN Len(acc) + 1
              ELSE CHOOSE k \in later : \A m \in later : k <= m
   IN  SubSeq(acc, 1, pos - 1) \o <<i>> \o SubSeq(acc, pos, Len(acc))

\* Array.prototype.sort with the comparator (a, b) => key(b) - key(a):
\* a stable sort, descending by key.  keys[i] is the key of element i; the
\* result lists the elements' indices in sorted order.
InsertDesc(acc, i, keys) ==
   LET later == {k \in 1..Len(acc) : keys[acc[k]] < keys[i]}
       pos == IF later = {} THEN Len(acc) + 1
              ELSE CHOOSE k \in later : \A m \in later : k <= m
   IN  SubSeq(acc, 1, pos - 1) \o <<i>> \o SubSeq(acc, pos, Len(acc))

SortDesc(keys) ==
   LET RECURSIVE go(_, _)
       go(i, acc) == IF i > Len(keys) THEN acc
                     ELSE go(i + 1, InsertDesc(acc, i, keys))
   IN  go(1, <<>>)

TOP_N == 10

\* TopSorted with slice before sort: the first ten records, sorted
TopSortedSliceFirst(recs) ==
   LET n == IF Len(recs) < TOP_N THEN Len(recs) ELSE TOP_N
   IN  SortDesc([i \in 1..n |-> recs[i].estimatedTokens])

\* [...records].sort((a, b) => b.estimatedTokens - a.estimatedTokens).slice(0, 10),
\* as the indices in records of the records it holds
TopSorted(recs) ==
   LET all == SortDesc([i \in 1..Len(recs) |-> recs[i].estimatedTokens])
   IN  SubSeq(all, 1, IF Len(all) < TOP_N THEN Len(all) ELSE TOP_N)

\* The line of the record at index i of recs, listed at rank
TopRow(recs, i, rank) ==
   [rank |-> rank,
    record |-> i,
    estimatedTokens |-> recs[i].estimatedTokens,
    cmd |-> Shorten(recs[i].command, 70, 67)]

TopRows(recs, sorted) ==
   [k \in 1..Len(sorted) |-> TopRow(recs, sorted[k], k)]

TopReport(recs) == [kind |-> "top", rows |-> TopRows(recs, TopSorted(recs))]

AllReport(recs) ==
   [kind |-> "all",
    rows |-> [i \in 1..Len(recs) |->
                [estimatedTokens |-> recs[i].estimatedTokens,
                 outputChars |-> recs[i].outputChars,
                 truncated |-> recs[i].truncated,
                 isError |-> recs[i].isError,
                 cmd |-> Shorten(recs[i].command, 80, 77)]],
    totalCommands |-> Len(recs),
    totalTokens |-> SumTokens(recs)]

\* GroupStep with = in place of +=: a group keeps its last record's numbers
GroupStepOverwrite(groups, r, showCommands) ==
   LET g == classifyCommand(r.command)
       at == {k \in 1..Len(groups) : groups[k].group = g}
       fresh == [group |-> g, count |-> 1, totalTokens |-> r.estimatedTokens,
                 totalChars |-> r.outputChars,
                 commands |-> IF showCommands
                              THEN <<Shorten(r.command, 60, 57)>> ELSE <<>>]
   IN  IF at = {} THEN Append(groups, fresh)
       ELSE [groups EXCEPT ![CHOOSE k \in at : TRUE] = fresh]

\* One pass of the loop that fills the groups map, for a record r of
\* category g: the map, as the sequence of its entries in insertion order,
\* after record r.
GroupInto(groups, g, r, showCommands) ==
   LET at == {k \in 1..Len(groups) : groups[k].group = g}
       existing == IF at = {}
                   THEN [group |-> g, count |-> 0, totalTokens |-> 0,
                         totalChars |-> 0, commands |-> <<>>]
                   ELSE groups[CHOOSE k \in at : TRUE]
       updated == [existing EXCEPT
                     !.count = @ + 1,
                     !.totalTokens = @ + r.estimatedTokens,
                     !.totalChars = @ + r.outputChars,
                     !.commands = IF showCommands /\ Len(@) < 3
                                  THEN Append(@, Shorten(r.command, 60, 57))
                                  ELSE @]
   IN  IF at = {} THEN Append(groups, updated)
       ELSE [groups EXCEPT ![CHOOSE k \in at : TRUE] = updated]

\* const group = classifyCommand(r.command), then the rest of the body
GroupStep(groups, r, showCommands) ==
   GroupInto(groups, classifyCommand(r.command), r, showCommands)

GroupRecords(recs, showCommands) ==
   LET RECURSIVE go(_, _)
       go(i, groups) == IF i > Len(recs) THEN groups
                        ELSE go(i + 1, GroupStep(groups, recs[i], showCommands))
   IN  go(1, <<>>)

\* [...groups.entries()].sort((a, b) => b[1].totalTokens - a[1].totalTokens)
SortGroups(groups) ==
   LET order == SortDesc([k \in 1..Len(groups) |-> groups[k].totalTokens])
   IN  [k \in 1..Len(groups) |-> groups[order[k]]]

\* String(n) of a natural number
DigitText == <<"0", "1", "2", "3", "4", "5", "6", "7", "8", "9">>

RECURSIVE NumberText(_)
NumberText(n) ==
   IF n < 10 THEN DigitText[n + 1]
   ELSE NumberText(n \div 10) \o DigitText[(n % 10) + 1]

\* Numbers of JavaScript are IEEE 754 doubles.  A natural number is held
\* here as the sequence of its digits to the base 256, least significant
\* first and the last one not 0, and a double x > 0 as [m, e], the value
\* m * 2^e with m of at most 53 bits; the double 0 has m = <<>>.
BASE == 256
BASE_BITS == 8
DOUBLE_BITS == 53

RECURSIVE NatDigits(_)
NatDigits(n) == IF n = 0 THEN <<>> ELSE <<n % BASE>> \o NatDigits(n \div BASE)

RECURSIVE DigitsNat(_)
DigitsNat(a) == IF a = <<>> THEN 0 ELSE a[1] + BASE * DigitsNat(Tail(a))

RECURSIVE MsbFirst(_)
MsbFirst(a) == IF a = <<>> THEN <<>> ELSE MsbFirst(Tail(a)) \o <<a[1]>>

DigitAt(a, i) == IF i \in DOMAIN a THEN a[i] ELSE 0

RECURSIVE DigitsAddFrom(_, _, _, _)
DigitsAddFrom(a, b, i, carry) ==
   IF i > Len(a) /\ i > Len(b)
   THEN (IF carry = 0 THEN <<>> ELSE <<carry>>)
   ELSE <<(DigitAt(a, i) + DigitAt(b, i) + carry) % BASE>>
           \o DigitsAddFrom(a, b, i + 1,
                            (DigitAt(a, i) + DigitAt(b, i) + carry) \div BASE)

DigitsAdd(a, b) == DigitsAddFrom(a, b, 1, 0)

\* a times the natural number c, 0 < c < 2^16
RECURSIVE DigitsTimesFrom(_, _, _, _)
DigitsTimesFrom(a, c, i, carry) ==
   IF i > Len(a) /\ carry = 0 THEN <<>>
   ELSE <<(DigitAt(a, i) * c + carry) % BASE>>
           \o DigitsTimesFrom(a, c, i + 1, (DigitAt(a, i) * c + carry) \div BASE)

DigitsTimes(a, c) == DigitsTimesFrom(a, c, 1, 0)

\* The number of bits of a, and its bit j, the lowest one being bit 0
BitLength(a) ==
   IF a = <<>> THEN 0
   ELSE BASE_BITS * (Len(a) - 1)
           + (CHOOSE n \in 1..BASE_BITS :
                 2^(n - 1) <= a[Len(a)] /\ a[Len(a)] < 2^n)

BitOf(a, j) == (DigitAt(a, (j \div BASE_BITS) + 1) \div 2^(j % BASE_BITS)) % 2

\* 2^s
PowerOfTwo(s) ==
   [i \in 1..((s \div BASE_BITS) + 1) |->
       IF i = (s \div BASE_BITS) + 1 THEN 2^(s % BASE_BITS) ELSE 0]

DropLeadingZero(a) ==
   IF a[Len(a)] = 0 THEN SubSeq(a, 1, Len(a) - 1) ELSE a

\* a without its s lowest bits
ShiftRight(a, s) ==
   IF BitLength(a) <= s THEN <<>>
   ELSE DropLeadingZero(
           [i \in 1..(Len(a) - (s \div BASE_BITS)) |->
               (DigitAt(a, i + (s \div BASE_BITS)) \div 2^(s % BASE_BITS))
               + (DigitAt(a, i + (s \div BASE_BITS) + 1) % 2^(s % BASE_BITS))
                    * 2^(BASE_BITS - (s % BASE_BITS))])

\* a with its drop > 0 lowest bits rounded away, to nearest and a tie to
\* even, as [m, e] with value m * 2^e; below counts a rest under bit 0 of a
RoundAway(a, drop, below) ==
   IF /\ BitOf(a, drop - 1) = 1
      /\ \/ below
         \/ BitOf(a, drop) = 1
         \/ \E j \in 0..(drop - 2) : BitOf(a, j) = 1
   THEN [m |-> DigitsAdd(ShiftRight(a, drop), <<1>>), e |-> drop]
   ELSE [m |-> ShiftRight(a, drop), e |-> drop]

\* The double nearest to a (and to a rest under its bit 0, if below)
RoundDouble(a, below) ==
   IF BitLength(a) <= DOUBLE_BITS THEN [m |-> a, e |-> 0]
   ELSE RoundAway(a, BitLength(a) - DOUBLE_BITS, below)

\* Long division by total, 0 < total < 2^23, of the digits num (most
\* significant first) and then of as many digits 0 as it takes to have
\* QUOTIENT_DIGITS digits of the quotient: the quotient q, the number k of
\* digits 0 taken and the rest rem
QUOTIENT_DIGITS == 8

RECURSIVE DivideDigits(_, _, _, _, _)
DivideDigits(num, total, rem, q, k) ==
   IF num = <<>> /\ Len(q) >= QUOTIENT_DIGITS
   THEN [q |-> q, k |-> k, rem |-> rem]
   ELSE DivideDigits(
           IF num = <<>> THEN <<>> ELSE Tail(num),
           total,
           (rem * BASE + DigitAt(num, 1)) % total,
           IF q = <<>> /\ rem * BASE + DigitAt(num, 1) < total THEN <<>>
           ELSE <<(rem * BASE + DigitAt(num, 1)) \div total>> \o q,
           IF num = <<>> THEN k + 1 ELSE k)

\* x * 2^n
ScaleDouble(x, n) == [m |-> x.m, e |-> x.e + n]

QuotientDouble(d) ==
   ScaleDouble(RoundDouble(d.q, d.rem # 0), - (BASE_BITS * d.k))

\* part / total, for naturals part and 0 < total < 2^23
DivDouble(part, total) ==
   IF part = 0 THEN [m |-> <<>>, e |-> 0]
   ELSE QuotientDouble(DivideDigits(MsbFirst(NatDigits(part)), total, 0, <<>>, 0))

\* x * c, for a natural number c, 0 < c < 2^16
TimesDouble(x, c) ==
   ScaleDouble(RoundDouble(DigitsTimes(x.m, c), FALSE), x.e)

\* x.toFixed(1) as the number n of tenths, for 0 <= x < 2^27 (so that
\* x.e < 0 and n < 2^31): the integer n for which n / 10 is closest to x,
\* the larger one of two
TenthsOf(x) ==
   IF x.m = <<>> THEN 0
   ELSE DigitsNat(ShiftRight(DigitsAdd(DigitsTimes(x.m, 10),
                                       PowerOfTwo((- x.e) - 1)),
                             - x.e))

TenthsText(n) == NumberText(n \div 10) \o "." \o NumberText(n % 10)

ToFixed1(x) == TenthsText(TenthsOf(x))

\* ((part / total) * 100).toFixed(1), for naturals part and total < 2^23
\* with part / total < 2^20: the text it prints.  0 / 0 is NaN and x / 0 is
\* Infinity.
Pct(part, total) ==
   IF total = 0 THEN (IF part = 0 THEN "NaN" ELSE "Infinity")
   ELSE ToFixed1(TimesDouble(DivDouble(part, total), 100))

\* The line of one group
GroupRow(data, totalTokens) ==
   [group |-> data.group,
    totalTokens |-> data.totalTokens,
    pct |-> Pct(data.totalTokens, totalTokens),
    count |-> data.count,
    totalChars |-> data.totalChars,
    commands |-> data.commands]

GroupRows(sorted, totalTokens) ==
   [k \in 1..Len(sorted) |-> GroupRow(sorted[k], totalTokens)]

GroupedReport(recs, showCommands) ==
   [kind |-> IF showCommands THEN "groups" ELSE "summary",
    rows |-> GroupRows(SortGroups(GroupRecords(recs, showCommands)),
                       SumTokens(recs)),
    totalCommands |-> Len(recs),
    totalTokens |-> SumTokens(recs)]

PirsReport(recs, args) ==
   IF Len(recs) = 0 THEN [kind |-> "no data"]
   ELSE IF Mode(args) = "all" THEN AllReport(recs)
        ELSE IF Mode(args) = "top" THEN TopReport(recs)
             ELSE GroupedReport(recs, Mode(args) = "groups")

\* Pirs with records.sort(...) in place of [...records].sort(...): /pirs top
\* leaves the stored records in the order of its listing
PirsSortsInPlace(args) ==
   /\ notified' = PirsReport(records, args)
   /\ records' =
         IF Mode(args) = "top"
         THEN LET order ==
                     SortDesc([i \in 1..Len(records) |-> records[i].estimatedTokens])
              IN  [k \in 1..Len(records) |-> records[order[k]]]
         ELSE records
   /\ UNCHANGED <<pendingCalls, entries, hasUI, widget, exports>>

Pirs(args) ==
   /\ notified' = PirsReport(records, args)
   /\ UNCHANGED <<records, pendingCalls, entries, hasUI, widget, exports>>

\* ------------------------------------------------------------------------
\* The extension under the host's events
\* ------------------------------------------------------------------------

ToolCallIds == {"t1"}
\* event.input.command of the calls of a run of Spec: the command its
\* results carry too
CallCommands == {"pytest -v"}
ResultCommands == {Absent, "pytest -v"}

\* content, details?.truncation?.truncated, isError of a bash result
EmptyResult == <<<<>>, <<>>, FALSE>>
SmallResult == <<<<TextPart("abcd")>>, <<FALSE>>, FALSE>>
MixedResult == <<<<TextPart("ab"), ImagePart, TextPart("abc")>>, <<TRUE>>, TRUE>>

\* The ones of the results of a run of Spec
ResultSamples == {EmptyResult, MixedResult}

BashCall(id, command) ==
   [toolName |-> "bash", toolCallId |-> id, command |-> command]

OtherCall(id) ==
   [toolName |-> "read", toolCallId |-> id, command |-> Absent]

BashResult(id, command, sample) ==
   [toolName |-> "bash", toolCallId |-> id, command |-> command,
    content |-> sample[1], truncation |-> sample[2], isError |-> sample[3]]

OtherResult(id) ==
   [toolName |-> "read", toolCallId |-> id, command |-> Absent,
    content |-> <<TextPart("file text")>>, truncation |-> <<>>,
    isError |-> FALSE]

CallEventsOf(ids, commands) ==
   {BashCall(id, c) : id \in ids, c \in commands}
      \cup {OtherCall(id) : id \in ids}

ResultEventsOf(ids, commands, samples) ==
   {BashResult(id, c, s) : id \in ids, c \in commands, s \in samples}
      \cup {OtherResult(id) : id \in ids}

CallEvents == CallEventsOf(ToolCallIds, CallCommands)

\* event.input.command of the results of a run of Spec
CarriedCommands == {"pytest -v"}

ResultEvents == ResultEventsOf(ToolCallIds, CarriedCommands, ResultSamples)

\* /pirs, /pirs all, /pirs top (typed with blanks), /pirs groups,
\* /pirs summary
ArgSamples == {Absent, "all", " top ", "groups", "summary"}

\* The ones a run of Spec types
TypedArgs == {" top ", "groups"}

\* An entry of the session that is not the tracker's
ForeignEntry == [type |-> "custom", customType |-> "other-extension",
                 data |-> [note |-> "n"]]

ProgInit ==
   /\ records = <<>>
   /\ pendingCalls = NoPending
   /\ entries = <<>>
   /\ widget = NoWidget
   /\ notified = [kind |-> "none"]
   /\ exports = <<>>

HarnessInit ==
   /\ parts = <<>>
   /\ base = Absent
   /\ group = Absent
   /\ history = <<>>

Init == ProgInit /\ hasUI = TRUE /\ HarnessInit

OnFactory == Factory /\ UNCHANGED <<harnessVars, history>>

OnSessionStart == SessionStart /\ UNCHANGED <<harnessVars, history>>

OnToolCall == \E event \in CallEvents :
   ToolCall(event) /\ UNCHANGED <<harnessVars, history>>

OnToolResult == \E event \in ResultEvents :
   ToolResult(event) /\ UNCHANGED <<harnessVars, history>>

OnPirs == \E args \in TypedArgs :
   Pirs(args) /\ UNCHANGED <<harnessVars, history>>

OnPirsReset == PirsReset /\ UNCHANGED <<harnessVars, history>>

OnPirsExport == PirsExport /\ UNCHANGED <<harnessVars, history>>

OnExportImportedFs == \E i \in DOMAIN exports :
   ExportImportedFs(i) /\ UNCHANGED <<harnessVars, history>>

OnExportWrite == \E i \in DOMAIN exports :
   ExportWrite(i) /\ UNCHANGED <<harnessVars, history>>

\* The host, or another extension, appends an entry of its own
HostAppendsEntry ==
   /\ Len(entries) < MaxEntries
   /\ entries' = Append(entries, ForeignEntry)
   /\ UNCHANGED <<records, pendingCalls, hasUI, widget, notified, exports>>
   /\ UNCHANGED <<harnessVars, history>>

Next ==
   \/ OnFactory
   \/ OnSessionStart
   \/ OnToolCall
   \/ OnToolResult
   \/ OnPirs
   \/ OnPirsReset
   \/ OnPirsExport
   \/ OnExportImportedFs
   \/ OnExportWrite
   \/ HostAppendsEntry

Spec == Init /\ [][Next]_vars

\* ------------------------------------------------------------------------
\* Call/result pairing, with the events delivered so far kept in history
\* ------------------------------------------------------------------------

PairIds == {"t1", "t2"}
PairCommands == {"git status", "ls -la"}
PairSamples == { <<<<TextPart("abcd")>>, <<>>, FALSE>> }

PairCallEvents == CallEventsOf(PairIds, PairCommands)
PairResultEvents == ResultEventsOf(PairIds, ResultCommands, PairSamples)

InitPairing == ProgInit /\ hasUI \in BOOLEAN /\ HarnessInit

PairToolCall == \E event \in PairCallEvents :
   /\ Len(history) < MaxHistory
   /\ ToolCall(event)
   /\ history' = Append(history, [type |-> "tool_call", event |-> event])
   /\ UNCHANGED harnessVars

PairToolResult == \E event \in PairResultEvents :
   /\ Len(history) < MaxHistory
   /\ ToolResult(event)
   /\ history' = Append(history, [type |-> "tool_result", event |-> event])
   /\ UNCHANGED harnessVars

\* The extension is loaded anew between two events; the entry of history
\* carries no event of the handlers
PairFactory ==
   /\ Len(history) < MaxHistory
   /\ Factory
   /\ history' = Append(history, [type |-> "factory", event |-> OtherCall("t1")])
   /\ UNCHANGED harnessVars

NextPairing == PairToolCall \/ PairToolResult \/ PairFactory

SpecPairing == InitPairing /\ [][NextPairing]_vars

\* ------------------------------------------------------------------------
\* extractBaseCommand and classifyCommand over composed command lines
\* ------------------------------------------------------------------------

CdPieces == {"cd a && ", "cd b; ", "cd c & "}
EnvPieces == {"FOO=bar "}
PlainPieces ==
   {"npx ", "uvx ", "-- ", "@scope/tool@1.2.3 ", "$x ",
    "npm ci --silent", "npm config set x y", "go build"}
Pieces == CdPieces \cup EnvPieces \cup PlainPieces

RECURSIVE Join(_)
Join(ps) == IF ps = <<>> THEN "" ELSE Head(ps) \o Join(Tail(ps))

InitClassify == ProgInit /\ hasUI = TRUE /\ HarnessInit

\* One more piece is typed at the end of the command line
AddPiece == \E piece \in Pieces :
   /\ base = Absent
   /\ Len(parts) < MaxParts
   /\ parts' = Append(parts, piece)
   /\ UNCHANGED <<progVars, base, group, history>>

\* The command line is classified
Classify ==
   /\ base = Absent
   /\ base' = extractBaseCommand(Join(parts))
   /\ group' = classifyCommand(Join(parts))
   /\ UNCHANGED <<progVars, parts, history>>

NextClassify == AddPiece \/ Classify

SpecClassify == InitClassify /\ [][NextClassify]_vars

\* ------------------------------------------------------------------------
\* /pirs over record sequences that bash results have built
\* ------------------------------------------------------------------------

\* The record of a bash result with no pending call
RecordOf(command, sample) == NewRecord(NoPending, BashResult("t1", command, sample))

ShortRecords ==
   {RecordOf("git status", s) : s \in {EmptyResult, SmallResult}}
      \cup {RecordOf("pytest -v", s) : s \in {SmallResult, MixedResult}}
      \cup {RecordOf("echo hi", s) : s \in {EmptyResult, MixedResult}}

LongRecords ==
   {RecordOf("pytest -v", s) :
      s \in { <<<<TextPart("abcd")>>, <<>>, FALSE>>,
              <<<<TextPart("abcde")>>, <<>>, FALSE>> }}

SeqsOf(S, lo, hi) == UNION {[1..n -> S] : n \in lo..hi}

ReportInputs == SeqsOf(ShortRecords, 0, MaxShort)

\* The entries after the bash results that built recs
EntriesOf(recs) == [n \in 1..Len(recs) |-> TrackerEntry(SubSeq(recs, 1, n))]

\* The state after the bash results that built the records of inputs
InitAfterResults(inputs) ==
   /\ records \in inputs
   /\ pendingCalls = NoPending
   /\ entries = EntriesOf(records)
   /\ hasUI = TRUE
   /\ widget = WidgetFor(TRUE, NoWidget, records)
   /\ notified = [kind |-> "none"]
   /\ exports = <<>>
   /\ HarnessInit

InitReport == InitAfterResults(ReportInputs)

ReportPirs == \E args \in ArgSamples :
   Pirs(args) /\ UNCHANGED <<harnessVars, history>>

NextReport == ReportPirs

SpecReport == InitReport /\ [][NextReport]_vars

\* ------------------------------------------------------------------------
\* /pirs top over record sequences around the length of the listing
\* ------------------------------------------------------------------------

TopInputs == SeqsOf(LongRecords, TOP_N - 1, MaxLong)

\* /pirs top, typed with and without blanks
TopArgs == {"top", " top "}

InitTop == InitAfterResults(TopInputs)

TopPirs == \E args \in TopArgs :
   Pirs(args) /\ UNCHANGED <<harnessVars, history>>

NextTop == TopPirs

SpecTop == InitTop /\ [][NextTop]_vars

\* ------------------------------------------------------------------------
\* /pirs in every mode, with calls pending, over stored records
\* ------------------------------------------------------------------------

ReadOnlyRecords ==
   {RecordOf("git status", EmptyResult),
    RecordOf("pytest -v", SmallResult),
    RecordOf("pytest -v", MixedResult),
    RecordOf("echo hi", MixedResult)}

ReadOnlyInputs == SeqsOf(ReadOnlyRecords, 0, MaxShort)

InitReadOnly == InitAfterResults(ReadOnlyInputs)

NextReadOnly == OnToolCall \/ ReportPirs

SpecReadOnly == InitReadOnly /\ [][NextReadOnly]_vars

\* ------------------------------------------------------------------------
\* Properties
\* ------------------------------------------------------------------------

\* The sum of f over the set S of its arguments
RECURSIVE SumOver(_, _)
SumOver(f, S) ==
   IF S = {} THEN 0
   ELSE LET x == CHOOSE y \in S : TRUE
        IN  f[x] + SumOver(f, S \ {x})

Least(S) == CHOOSE x \in S : \A y \in S : x <= y
Greatest(S) == CHOOSE x \in S : \A y \in S : y <= x

\* The records of a category, and the estimatedTokens of the records
MembersOf(g) == {k \in DOMAIN records : classifyCommand(records[k].command) = g}
TokensOfRecords == [k \in DOMAIN records |-> records[k].estimatedTokens]

\* /pirs last showed the grouped report
GroupedShown == notified.kind \in {"summary", "groups"}

\* C1: the grouped report of /pirs (summary and groups) puts each record
\* into exactly one category: the categories listed are pairwise distinct,
\* each one is the category of some record, every record's category is
\* listed, and a category's count and totalTokens are those of exactly the
\* records classified into it.  Hence the totalTokens of the categories add
\* up to the estimatedTokens of all records, which is the grand total on
\* the Total line.
C1_GroupedConservation ==
   GroupedShown =>
      LET rows == notified.rows
      IN  /\ \A i, j \in DOMAIN rows : rows[i].group = rows[j].group => i = j
          /\ \A k \in DOMAIN records :
                \E i \in DOMAIN rows :
                   rows[i].group = classifyCommand(records[k].command)
          /\ \A i \in DOMAIN rows :
                /\ MembersOf(rows[i].group) # {}
                /\ rows[i].count = Cardinality(MembersOf(rows[i].group))
                /\ rows[i].totalTokens =
                      SumOver(TokensOfRecords, MembersOf(rows[i].group))
          /\ SumOver([i \in DOMAIN rows |-> rows[i].count], DOMAIN rows)
                = Len(records)
          /\ SumOver([i \in DOMAIN rows |-> rows[i].totalTokens], DOMAIN rows)
                = SumOver(TokensOfRecords, DOMAIN records)
          /\ notified.totalTokens = SumOver(TokensOfRecords, DOMAIN records)

\* A summary of three records in two categories, one of them holding two
\* records with tokens
C1_Witness ==
   /\ notified.kind = "summary"
   /\ Len(records) = 3
   /\ Len(notified.rows) = 2
   /\ \E i \in DOMAIN notified.rows :
         notified.rows[i].count = 2 /\ notified.rows[i].totalTokens = 3

\* C2: when the estimatedTokens of the stored records add up to zero, /pirs
\* shows "no data" and not a grouped report, and no line of a grouped
\* report carries a percentage that is not a number.
C2_ZeroTotalIsNoData ==
   /\ SumOver(TokensOfRecords, DOMAIN records) = 0 => ~ GroupedShown
   /\ GroupedShown =>
         \A i \in DOMAIN notified.rows :
            notified.rows[i].pct \notin {"NaN", "Infinity"}

\* How many pieces at the start of ps are in S
LeadLen(ps, S) == Greatest({n \in 0..Len(ps) : \A i \in 1..n : ps[i] \in S})

\* ps without its leading cd clauses, and that without its leading
\* assignments: the command X of a chain
AfterCd(ps) == SubSeq(ps, LeadLen(ps, CdPieces) + 1, Len(ps))
ChainCommand(ps) ==
   SubSeq(AfterCd(ps), LeadLen(AfterCd(ps), EnvPieces) + 1, Len(AfterCd(ps)))

\* One or more cd clauses, then assignments if any, then a command made of
\* pieces that are neither
IsCdChain(ps) ==
   /\ LeadLen(ps, CdPieces) >= 1
   /\ ChainCommand(ps) # <<>>
   /\ \A i \in DOMAIN ChainCommand(ps) : ChainCommand(ps)[i] \in PlainPieces

\* C3: for a command line made of one or more leading cd clauses, each
\* ended by "&&", "&" or ";", then WORD=value assignments if any, then a
\* command X, extractBaseCommand returns X trimmed.
C3_StripsCdChain ==
   (base # Absent /\ IsCdChain(parts)) => base = Trim(Join(ChainCommand(parts)))

\* The ordered first-match reference of classifyCommand on a base command:
\* the first runner b starts with, else the first entry of COMMAND_GROUPS
\* with a pattern occurring anywhere in b, else "other"
RunnersHit(b) == {i \in DOMAIN RUNNERS : StartsWith(b, RUNNERS[i] \o " ")}
GroupsHit(b) ==
   {g \in DOMAIN COMMAND_GROUPS :
      \E p \in 2..Len(COMMAND_GROUPS[g]) :
         \E at \in 1..Len(b) :
            /\ at + Len(COMMAND_GROUPS[g][p]) - 1 <= Len(b)
            /\ SubSeq(b, at, at + Len(COMMAND_GROUPS[g][p]) - 1)
                  = COMMAND_GROUPS[g][p]}
FirstMatch(b) ==
   IF RunnersHit(b) # {}
   THEN LET runner == RUNNERS[Least(RunnersHit(b))]
            sub == extractRunnerCommand(b, runner)
        IN  IF sub \in {NoMatch, ""} THEN runner ELSE runner \o " " \o sub
   ELSE IF GroupsHit(b) # {} THEN COMMAND_GROUPS[Least(GroupsHit(b))][1]
        ELSE "other"

\* C4: classifyCommand(command) is the ordered first-match reference
\* applied to extractBaseCommand(command): the first of the runners npx,
\* bunx, uvx that base starts with gives "<runner> <subcommand>" or the
\* bare runner; else the first entry of COMMAND_GROUPS one of whose
\* patterns occurs anywhere in base gives its name; else "other".  The
\* empty command is "other", "npm ci --silent" is "npm install" and
\* "npm config set x y" is "npm".
C4_FirstMatch ==
   base # Absent =>
      /\ base = extractBaseCommand(Join(parts))
      /\ group = FirstMatch(base)
      /\ Join(parts) = "" => group = "other"
      /\ Join(parts) = "npm ci --silent" => group = "npm install"
      /\ Join(parts) = "npm config set x y" => group = "npm"

\* A command classified by a pattern that occurs after its start, behind
\* a cd clause that was stripped
C4_Witness ==
   /\ base = "$x go build"
   /\ group = "go"
   /\ Len(parts) = 3
   /\ parts[1] \in CdPieces

\* records' is records with exactly one record more at its end
AppendsOne ==
   /\ Len(records') = Len(records) + 1
   /\ SubSeq(records', 1, Len(records)) = records

\* The records of the last entry of ents that the tracker wrote
LastSnapshot(ents) ==
   LET ours == {i \in DOMAIN ents :
                  ents[i].type = "custom"
                     /\ ents[i].customType = "bash-token-tracker"}
   IN  IF ours = {} THEN <<>> ELSE ents[Greatest(ours)].data.records

\* A step of the bash tool_result handler
BashResultStep == \E event \in ResultEvents : IsBash(event) /\ ToolResult(event)

\* What a bash tool_result and /pirs-reset do to the record sequence
AppendAndReset ==
   /\ \A event \in ResultEvents :
         (IsBash(event) /\ ToolResult(event)) => AppendsOne
   /\ OnPirsReset => records' = <<>>

\* C5, as the specification states it: under the events of a process (the
\* factory starts a new one), the record sequence changes in two ways
\* only.  A bash tool_result appends exactly one record and leaves the
\* earlier ones as they were, in content and order; /pirs-reset empties
\* the sequence; no other event, session_start included, changes it.
C5_AppendOrReset ==
   [][ \/ OnFactory
       \/ /\ AppendAndReset
          /\ records' # records => (OnPirsReset \/ BashResultStep)
     ]_vars

\* C5, amended: under the events of a process the record sequence changes
\* in three ways only.  A bash tool_result appends exactly one record and
\* leaves the earlier ones as they were, in content and order; /pirs-reset
\* empties the sequence; and session_start puts the session's last
\* snapshot in the place of an empty sequence.  No event changes, reorders
\* or removes a record of a sequence that holds one, but /pirs-reset.
C5_AppendResetOrRestore ==
   [][ \/ OnFactory
       \/ /\ AppendAndReset
          /\ records' # records =>
                \/ OnPirsReset
                \/ BashResultStep
                \/ /\ OnSessionStart
                   /\ records = <<>>
                   /\ records' = LastSnapshot(entries)
     ]_vars

\* A new process (nothing notified yet) on a session that holds a reset and
\* then a bash result, with the records of that result in memory and in
\* the widget
C5_Witness ==
   /\ notified.kind = "none"
   /\ Len(entries) = MaxEntries
   /\ entries[1] = TrackerEntry(<<>>)
   /\ Len(records) >= 1
   /\ entries[2] = TrackerEntry(records)
   /\ widget.kind = "line"
   /\ widget.calls = Len(records)

\* The positions of history that are bash events of a type, and the ones
\* with a given id
BashAt(type) ==
   {n \in DOMAIN history : history[n].type = type /\ IsBash(history[n].event)}
BashWithId(type, id) ==
   {n \in BashAt(type) : history[n].event.toolCallId = id}

\* The command of the record for the bash tool_result at position n of
\* history: that of the most recent bash tool_call with its id since the
\* factory last ran and since the last bash tool_result with its id; with no
\* such call the command the result carries, and "<unknown>" if it carries
\* none.
PairedCommand(n) ==
   LET id == history[n].event.toolCallId
       cuts == {j \in 1..(n - 1) :
                  j \in BashWithId("tool_result", id)
                     \/ history[j].type = "factory"}
       from == IF cuts = {} THEN 0 ELSE Greatest(cuts)
       calls == {j \in (from + 1)..(n - 1) : j \in BashWithId("tool_call", id)}
   IN  IF calls # {} THEN history[Greatest(calls)].event.command
       ELSE IF history[n].event.command # Absent
            THEN history[n].event.command
            ELSE "<unknown>"

\* The bash tool_results since the factory last ran
ResultsOfProcess ==
   {n \in BashAt("tool_result") :
      \A j \in n..Len(history) : history[j].type # "factory"}

\* C6: every bash tool_result produces a record, and the k-th record's
\* command is that of the most recent pending bash tool_call with the id of
\* the k-th bash tool_result (a call not yet taken by an earlier bash
\* tool_result with that id); without one it is the command the result
\* carries, and the literal "<unknown>" when it carries none.
C6_Pairing ==
   /\ Len(records) = Cardinality(ResultsOfProcess)
   /\ \A n \in ResultsOfProcess :
         LET k == Cardinality({j \in ResultsOfProcess : j <= n})
         IN  records[k].command = PairedCommand(n)

\* Two calls with one id, then two results with that id that carry no
\* command: the first takes the later call's command, the second finds
\* nothing pending
C6_Witness ==
   /\ Len(history) = 4
   /\ BashWithId("tool_call", "t1") = {1, 2}
   /\ BashWithId("tool_result", "t1") = {3, 4}
   /\ history[1].event.command = "git status"
   /\ history[2].event.command = "ls -la"
   /\ history[3].event.command = Absent
   /\ history[4].event.command = Absent
   /\ Len(records) = 2
   /\ records[1].command = "ls -la"
   /\ records[2].command = "<unknown>"

\* C7: after a bash tool_result and after /pirs-reset the last
\* "bash-token-tracker" snapshot of the session equals the records in
\* memory (the empty sequence after a reset), and so it does whenever
\* there are records in memory; what session_start restores from the
\* session's entries is that snapshot, the same records in the same order.
C7_SnapshotIsRecords ==
   /\ [](records # <<>> => LastSnapshot(entries) = records)
   /\ [](RestoreRecords(entries, 1, <<>>) = LastSnapshot(entries))
   /\ [][ /\ (OnPirsReset \/ BashResultStep) => LastSnapshot(entries') = records'
          /\ OnPirsReset => LastSnapshot(entries') = <<>>
          /\ OnSessionStart => records' = LastSnapshot(entries)
        ]_vars

\* Records in memory whose snapshot is followed by an entry of another
\* extension
C7_Witness ==
   /\ Len(entries) = 2
   /\ entries[1] = TrackerEntry(records)
   /\ entries[2] = ForeignEntry
   /\ Len(records) = 1

\* The lengths of the text parts of a content, added up
TextLength(content) ==
   SumOver([i \in DOMAIN content |->
               IF content[i].type = "text" THEN Len(content[i].text) ELSE 0],
           DOMAIN content)

\* C8: every record of every reachable state has outputChars >= 0 and
\* estimatedTokens = ceil(outputChars / 4), that is, estimatedTokens is the
\* least integer t with outputChars <= 4 * t; and the record a bash
\* tool_result appends has for outputChars the sum of the lengths of the
\* text parts of the result's content.
C8_TokensOfChars ==
   /\ [](\A k \in DOMAIN records :
            /\ records[k].outputChars >= 0
            /\ records[k].outputChars <= 4 * records[k].estimatedTokens
            /\ 4 * (records[k].estimatedTokens - 1) < records[k].outputChars)
   /\ [][\A event \in ResultEvents :
            (IsBash(event) /\ ToolResult(event)) =>
               records'[Len(records')].outputChars = TextLength(event.content)
        ]_vars

\* A record of five characters in two text parts around a part that is
\* not text, kept through a later entry of the session
C8_Witness ==
   /\ Len(records) = 2
   /\ records[1].outputChars = 5
   /\ records[1].estimatedTokens = 2
   /\ records[2].outputChars = 0
   /\ records[2].estimatedTokens = 0

\* C9: /pirs top lists min(10, number of records) records, each once, in
\* non-increasing order of estimatedTokens; records of equal
\* estimatedTokens are listed in their order of arrival; and no record left
\* out has more estimatedTokens than a record listed.
C9_TopTen ==
   notified.kind = "top" =>
      LET rows == notified.rows
          listed == {rows[k].record : k \in DOMAIN rows}
      IN  /\ Len(rows) = (IF Len(records) < 10 THEN Len(records) ELSE 10)
          /\ listed \subseteq DOMAIN records
          /\ Cardinality(listed) = Len(rows)
          /\ \A k \in DOMAIN rows :
                /\ rows[k].rank = k
                /\ rows[k].estimatedTokens
                      = records[rows[k].record].estimatedTokens
          /\ \A k \in DOMAIN rows : \A m \in DOMAIN rows :
                k < m =>
                   /\ rows[k].estimatedTokens >= rows[m].estimatedTokens
                   /\ rows[k].estimatedTokens = rows[m].estimatedTokens
                         => rows[k].record < rows[m].record
          /\ \A i \in DOMAIN records \ listed : \A k \in DOMAIN rows :
                records[i].estimatedTokens <= rows[k].estimatedTokens

\* Eleven records listed as ten: the sort moved a later record to the
\* top, records of equal tokens follow each other, and the record left out
\* ties with the last one listed and arrived after it
C9_Witness ==
   /\ notified.kind = "top"
   /\ Len(records) = 11
   /\ Len(notified.rows) = 10
   /\ notified.rows[1].record = 11
   /\ notified.rows[1].estimatedTokens = 2
   /\ notified.rows[2].estimatedTokens = 1
   /\ notified.rows[10].record = 9
   /\ records[10].estimatedTokens = 1

\* The place in records of the first record of category g
FirstOf(g) == Least(MembersOf(g))

\* C10: the grouped report lists the categories in non-increasing order of
\* totalTokens, and of two categories with equal totalTokens the one whose
\* first record came earlier in the record sequence is listed first.
C10_GroupsSorted ==
   GroupedShown =>
      \A i \in DOMAIN notified.rows : \A j \in DOMAIN notified.rows :
         i < j =>
            /\ notified.rows[i].totalTokens >= notified.rows[j].totalTokens
            /\ notified.rows[i].totalTokens = notified.rows[j].totalTokens
                  => FirstOf(notified.rows[i].group)
                        < FirstOf(notified.rows[j].group)

\* Three categories: the one met last has the most tokens and is listed
\* first, the other two tie and keep the order in which they were met
C10_Witness ==
   /\ notified.kind = "groups"
   /\ Len(notified.rows) = 3
   /\ FirstOf(notified.rows[1].group) = 3
   /\ notified.rows[2].totalTokens = notified.rows[3].totalTokens
   /\ FirstOf(notified.rows[2].group) = 1
   /\ FirstOf(notified.rows[3].group) = 2

\* What /pirs notifies
ReportKinds == {"no data", "all", "top", "summary", "groups"}

\* The store /pirs reads: the records, the pending calls and the session's
\* entries with the snapshots in them
StoreUnchanged ==
   /\ records' = records
   /\ pendingCalls' = pendingCalls
   /\ entries' = entries

\* C11: /pirs is read-only.  A step of /pirs in any mode (none, summary,
\* groups, all, top) leaves the record sequence (contents and order), the
\* pending-call map and the session's entries as they were, that is, a
\* step that changes one of them is not a step of /pirs in any mode; and
\* so does every step that shows a new report.  /pirs top sorts a copy.
C11_ReportingReadOnly ==
   [][ /\ StoreUnchanged \/ \A args \in ArgSamples : ~ Pirs(args)
       /\ (notified' # notified /\ notified'.kind \in ReportKinds)
             => StoreUnchanged
     ]_vars

\* /pirs top has listed the third record first while a call is pending, and
\* the stored records and snapshots are in their order of arrival
C11_Witness ==
   /\ notified.kind = "top"
   /\ Len(records) = 3
   /\ notified.rows[1].record = 3
   /\ records[1].estimatedTokens < records[3].estimatedTokens
   /\ DOMAIN pendingCalls = {"t1"}
   /\ entries = EntriesOf(records)
====
